---- MODULE Spec2Model ----
(***************************************************************************)
(* Model of the questionnaire evaluation engine of the alerts application: *)
(* the catalog (questions, options, conditions, option-to-red-flag map),   *)
(* the patient_form view (visibility pass, red-flag matching, submission   *)
(* recording, notification) and PatientSubmission.save.                    *)
(*                                                                         *)
(* Specifications:                                                         *)
(*   Spec          patient_form requests, each handled in one step         *)
(*   SpecSnapshot  a patient_form POST in two steps, next to deletions of  *)
(*                 options by the admin site                               *)
(*   SpecDoctors   Doctor.save by two callers, slug loop and INSERT apart  *)
(*   SpecTexts     the text helpers and the GET branch of patient_form     *)
(*   SpecIngest    runs of the ingest_forms command                        *)
(*   SpecAdmin     patient_form requests next to deletions of questions    *)
(*                 by the admin site                                       *)
(*   SpecPatientId generate_patient_id over names and mobiles              *)
(***************************************************************************)
EXTENDS Integers, Sequences, FiniteSets, TLC

VARIABLES
    questions,           \* Question rows: question_id -> fields
    options,             \* QuestionOption rows: option_id -> owning question_id
    conditions,          \* QuestionCondition rows: set of <<question_id, option_id>>
    option_redflag_map,  \* OptionRedFlagMap rows: set of <<option_id, red_flag_id>>
    submissions,         \* PatientSubmission rows: record_id -> fields
    last,                \* outcome of the request handled last
    request,             \* URL arguments of the request handled last
    req,                 \* a patient_form POST between its two loops
    doctor_rows,         \* Doctor rows: pk -> fields
    saving,              \* Doctor.save calls in progress: caller -> position
    question_translations,  \* QuestionTranslation rows
    option_translations,    \* OptionTranslation rows
    resolved,            \* what the text lookup made last returned
    db,                  \* the tables the ingestion command writes
    orphaned,            \* questions whose parent question was deleted
    derived              \* the calls of generate_patient_id made so far

vars == <<questions, options, conditions, option_redflag_map, submissions, last,
          request, req, doctor_rows, saving, question_translations,
          option_translations, resolved, db, orphaned, derived>>

catalog_vars == <<questions, options, conditions, option_redflag_map>>

eval_vars == <<catalog_vars, submissions, last, request, req>>
doctor_vars == <<doctor_rows, saving>>
text_vars == <<question_translations, option_translations, resolved>>
ingest_vars == <<db>>
history_vars == <<orphaned, derived>>

----------------------------------------------------------------------------
(* Bounds *)

\* number of distinct values secrets.token_hex(4) can return in the model;
\* record_id is unique, so it also bounds the PatientSubmission rows
NumTokens == 1

----------------------------------------------------------------------------
(* Python values *)

\* Python None as stored in the answers dict / a NULL foreign key
NULL == "<null>"

PyNone == [kind |-> "none", v |-> <<>>]
PyStr(s) == [kind |-> "str", v |-> <<s>>]
PyList(l) == [kind |-> "list", v |-> l]

\* truthiness of a value held in the answers dict (`if not value`)
Truthy(val) ==
    CASE val.kind = "none" -> FALSE
      [] val.kind = "str"  -> val.v[1] /= ""
      [] val.kind = "list" -> Len(val.v) > 0

Range(s) == {s[i] : i \in 1..Len(s)}

----------------------------------------------------------------------------
(* Question model constants *)

TEXT == "text"
SELECT == "select"
MULTI_SELECT == "multi_select"
QUESTION_TYPES == {TEXT, SELECT, MULTI_SELECT}

----------------------------------------------------------------------------
(* Reference data that no modelled operation changes *)

\* Doctor rows: shareable_slug -> email
doctors == [s \in {"dr-a"} |-> "a@clinic.example"]

\* Form rows (form_id) and Language rows (code)
forms == {"F1"}
languages == {"en", "fr"}

\* RedFlag rows: red_flag_id -> built-in texts
redflags ==
    [r \in {"RF1", "RF2", "RF3", "RF4"} |->
        [default_patient_response |-> "default patient " \o r,
         doctor_at_a_glance       |-> "default doctor " \o r]]

\* RedFlagTranslation rows: RF1 in both languages, RF2 in none, RF3 in
\* English only, RF4 in both with an empty French patient_response
redflag_translations ==
    {[red_flag |-> "RF1", language |-> "en",
      patient_response |-> "en patient RF1", doctor_at_a_glance |-> "en doctor RF1"],
     [red_flag |-> "RF1", language |-> "fr",
      patient_response |-> "fr patient RF1", doctor_at_a_glance |-> "fr doctor RF1"],
     [red_flag |-> "RF3", language |-> "en",
      patient_response |-> "en patient RF3", doctor_at_a_glance |-> "en doctor RF3"],
     [red_flag |-> "RF4", language |-> "en",
      patient_response |-> "en patient RF4", doctor_at_a_glance |-> "en doctor RF4"],
     [red_flag |-> "RF4", language |-> "fr",
      patient_response |-> "", doctor_at_a_glance |-> "fr doctor RF4"]}

----------------------------------------------------------------------------
(* Catalogs the model starts from *)

Question(form, seq, type, parent, shows) ==
    [form |-> form, sequence_no |-> seq, question_type |-> type,
     parent_question |-> parent, shows_text_field |-> shows]

\* key of the free-text companion of a question in the answers dict
TextKey(question_id) == question_id \o "_text"

\* The form of the spec's scenario: Q1 with options O1 (no flag), O2 (RF1),
\* O3 (RF1 and RF2); Q2 with parent Q1, option O5 (RF2) and a text companion.
\* t1: type of Q1; seq2: sequence_no of Q2 (Q1 has 1); T2: trigger options
\* of Q2; third: whether a third question exists whose question_id is the
\* companion key of Q1 (then Q1 shows its text field); p2: parent of Q2.
CatalogFor(t1, seq2, p2, T2, third) ==
    [questions |->
        ("Q1" :> Question("F1", 1, t1, NULL, third))
        @@ ("Q2" :> Question("F1", seq2, SELECT, p2, TRUE))
        @@ (IF third
            THEN (TextKey("Q1") :> Question("F1", 2, SELECT, "Q1", FALSE))
            ELSE <<>>),
     options |->
        [o \in {"O1", "O2", "O3"} |-> "Q1"]
        @@ ("O5" :> "Q2")
        @@ (IF third THEN ("O4" :> TextKey("Q1")) ELSE <<>>),
     conditions |->
        {<<"Q2", o>> : o \in T2}
        \cup (IF third THEN {<<TextKey("Q1"), "O1">>} ELSE {}),
     option_redflag_map |->
        {<<"O2", "RF1">>, <<"O3", "RF1">>, <<"O3", "RF2">>, <<"O5", "RF2">>}
        \cup (IF third THEN {<<"O4", "RF2">>} ELSE {})]

Catalogs ==
    {CatalogFor(t1, seq2, "Q1", T2, FALSE) :
        t1 \in QUESTION_TYPES, seq2 \in {0, 3}, T2 \in {{}, {"O2"}, {"O2", "O3"}}}
    \cup
    {CatalogFor(t1, 3, "Q1", {"O2"}, TRUE) : t1 \in QUESTION_TYPES}
    \cup
    {CatalogFor(t1, 3, TextKey("Q1"), {"O4"}, TRUE) : t1 \in QUESTION_TYPES}

----------------------------------------------------------------------------
(* Requests *)

\* what a call of send_redflag_email runs under: the value of
\* settings.SENDGRID_API_KEY, and whether the SendGrid client raises
SendRuns == {<<"", FALSE>>, <<"SG.key", FALSE>>, <<"SG.key", TRUE>>}

Slugs == {"dr-a", "nobody"}
FormIds == {"F1", "FX"}
LangCodes == {"en", "xx"}

\* request.session: patient_name / patient_mobile (NULL when not set)
Sessions ==
    {[patient_name |-> "Jane Doe", patient_mobile |-> "5551234"],
     [patient_name |-> NULL, patient_mobile |-> NULL]}

\* request.POST bodies: POST key -> list of the values posted under it
PostBodies ==
    {<<>>,
     ("q_Q1" :> <<"O1">>),
     ("q_Q1" :> <<"O2">>),
     ("q_Q1" :> <<"O2", "O3">>),
     ("q_Q1" :> <<"OX", "O2">>),
     ("q_Q1" :> <<"O1">>) @@ ("q_Q2" :> <<"O5">>) @@ ("q_Q2_text" :> <<"note">>),
     ("q_Q1" :> <<"O2">>) @@ ("q_Q2" :> <<"O5">>) @@ ("q_Q2_text" :> <<"note">>),
     ("q_Q1" :> <<"O2">>) @@ ("q_Q1_text" :> <<"O4">>),
     ("q_Q1" :> <<"O1">>) @@ ("q_Q1_text" :> <<"O4">>)}

\* QueryDict.get(key, default): the last value posted under key
PostGet(post, key, default) ==
    IF key \in DOMAIN post /\ Len(post[key]) > 0
    THEN PyStr(post[key][Len(post[key])])
    ELSE default

\* QueryDict.getlist(key): every value posted under key
PostGetList(post, key) ==
    IF key \in DOMAIN post THEN PyList(post[key]) ELSE PyList(<<>>)

----------------------------------------------------------------------------
(* Visibility evaluation (views.py) *)

\* form.questions, in Meta.ordering = ["sequence_no"]; rows with equal
\* sequence_no come in either order
FormQuestions(form_id) == {q \in DOMAIN questions : questions[q].form = form_id}

OrderedQuestions(form_id) ==
    LET qset == FormQuestions(form_id)
        n == Cardinality(qset)
    IN {s \in [1..n -> qset] :
            /\ \A i, j \in 1..n : i /= j => s[i] /= s[j]
            /\ \A i, j \in 1..n :
                  i < j => questions[s[i]].sequence_no <= questions[s[j]].sequence_no}

\* question.conditions: the trigger option_ids of the question's condition rows
TriggerOptions(question_id) ==
    {c[2] : c \in {c \in conditions : c[1] = question_id}}

\* _question_conditions_met without the `conditions.exists()` early return
_question_conditions_met_no_exists(question_id, answers) ==
    IF questions[question_id].parent_question = NULL THEN "True"
    ELSE LET parent == questions[question_id].parent_question
             parent_answer ==
                 IF parent \in DOMAIN answers THEN answers[parent] ELSE PyList(<<>>)
         IN IF parent_answer.kind = "none" THEN "TypeError"
            ELSE IF \E i \in 1..Len(parent_answer.v) :
                        parent_answer.v[i] \in TriggerOptions(question_id)
                 THEN "True"
                 ELSE "False"

\* "True", "False", or "TypeError" when the parent's recorded answer is None
\* and the generator iterates over it
_question_conditions_met(question_id, answers) ==
    IF questions[question_id].parent_question = NULL THEN "True"
    ELSE IF TriggerOptions(question_id) = {} THEN "True"
    ELSE LET parent == questions[question_id].parent_question
             parent_answer ==
                 IF parent \in DOMAIN answers THEN answers[parent] ELSE PyList(<<>>)
         IN IF parent_answer.kind = "none" THEN "TypeError"
            ELSE IF \E i \in 1..Len(parent_answer.v) :
                        parent_answer.v[i] \in TriggerOptions(question_id)
                 THEN "True"
                 ELSE "False"

\* value stored under answers[question_id] for an active question
RecordedValue(question_id, post) ==
    LET key == "q_" \o question_id
        type == questions[question_id].question_type
    IN CASE type = TEXT   -> PostGet(post, key, PyStr(""))
         [] type = SELECT -> PostGet(post, key, PyNone)
         [] OTHER         -> PostGetList(post, key)

\* first loop of the POST branch: acc.answers is the answers dict, acc.active
\* the questions that were not skipped, acc.error the exception raised
RECURSIVE CollectAnswers(_, _, _)
CollectAnswers(qs, post, acc) ==
    IF qs = <<>> \/ acc.error /= "" THEN acc
    ELSE LET question_id == Head(qs)
             met == _question_conditions_met(question_id, acc.answers)
         IN IF met = "TypeError" THEN [acc EXCEPT !.error = "TypeError"]
            ELSE IF met = "False" THEN CollectAnswers(Tail(qs), post, acc)
            ELSE LET key == "q_" \o question_id
                     a1 == (question_id :> RecordedValue(question_id, post))
                               @@ acc.answers
                     a2 == IF questions[question_id].shows_text_field
                           THEN (TextKey(question_id) :>
                                     PostGet(post, key \o "_text", PyStr("")))
                                @@ a1
                           ELSE a1
                 IN CollectAnswers(Tail(qs), post,
                        [answers |-> a2,
                         active  |-> acc.active \cup {question_id},
                         error   |-> ""])

----------------------------------------------------------------------------
(* Red-flag matching (views.py) *)

\* OptionRedFlagMap.objects.filter(option=option).values_list("red_flag__red_flag_id")
MappedRedFlags(option_id) ==
    {m[2] : m \in {m \in option_redflag_map : m[1] = option_id}}

\* the inner loop looking at the first selected option only
MatchOptionsFirstOnly(selected_options, red_flag_ids) ==
    IF selected_options = <<>> THEN red_flag_ids
    ELSE IF Head(selected_options) \notin DOMAIN options THEN red_flag_ids
    ELSE red_flag_ids \cup MappedRedFlags(Head(selected_options))

\* the inner loop leaving at the first option id that does not resolve
\* (`break` in place of `continue`)
RECURSIVE MatchOptionsStopAtUnknown(_, _)
MatchOptionsStopAtUnknown(selected_options, red_flag_ids) ==
    IF selected_options = <<>> THEN red_flag_ids
    ELSE LET option_id == Head(selected_options)
         IN IF option_id \notin DOMAIN options
            THEN red_flag_ids
            ELSE MatchOptionsStopAtUnknown(Tail(selected_options),
                                           red_flag_ids \cup MappedRedFlags(option_id))

\* inner loop: option ids that resolve to no QuestionOption are skipped
RECURSIVE MatchOptions(_, _)
MatchOptions(selected_options, red_flag_ids) ==
    IF selected_options = <<>> THEN red_flag_ids
    ELSE LET option_id == Head(selected_options)
         IN IF option_id \notin DOMAIN options
            THEN MatchOptions(Tail(selected_options), red_flag_ids)
            ELSE MatchOptions(Tail(selected_options),
                              red_flag_ids \cup MappedRedFlags(option_id))

\* outer loop over the form's questions
RECURSIVE MatchRedFlags(_, _, _)
MatchRedFlags(qs, answers, red_flag_ids) ==
    IF qs = <<>> THEN red_flag_ids
    ELSE LET question_id == Head(qs)
         IN IF question_id \notin DOMAIN answers
            THEN MatchRedFlags(Tail(qs), answers, red_flag_ids)
            ELSE LET value == answers[question_id]
                 IN IF ~Truthy(value)
                    THEN MatchRedFlags(Tail(qs), answers, red_flag_ids)
                    ELSE MatchRedFlags(Tail(qs), answers,
                                       MatchOptions(value.v, red_flag_ids))

----------------------------------------------------------------------------
(* Localised red-flag texts (views.py) *)

_redflag_patient_text(red_flag_id, language) ==
    LET rows == {t \in redflag_translations :
                    t.red_flag = red_flag_id /\ t.language = language}
    IN IF rows /= {}
       THEN (CHOOSE t \in rows : TRUE).patient_response
       ELSE redflags[red_flag_id].default_patient_response

_redflag_doctor_text(red_flag_id, language) ==
    LET rows == {t \in redflag_translations :
                    t.red_flag = red_flag_id /\ t.language = language}
    IN IF rows /= {}
       THEN (CHOOSE t \in rows : TRUE).doctor_at_a_glance
       ELSE redflags[red_flag_id].doctor_at_a_glance

\* list(RedFlag.objects.filter(red_flag_id__in=red_flag_ids)): the rows in
\* an order the query does not fix
RedFlagLists(red_flag_ids) ==
    LET found == red_flag_ids \cap DOMAIN redflags
        n == Cardinality(found)
    IN {s \in [1..n -> found] : \A i, j \in 1..n : i /= j => s[i] /= s[j]}

RedFlagPayload(red_flags, language) ==
    [i \in 1..Len(red_flags) |->
        [red_flag     |-> red_flags[i],
         patient_text |-> _redflag_patient_text(red_flags[i], language),
         doctor_text  |-> _redflag_doctor_text(red_flags[i], language)]]

----------------------------------------------------------------------------
(* Submission recording (models.py) and notification (email_utils.py) *)

HexDigits == <<"0", "1", "2", "3", "4", "5", "6", "7",
               "8", "9", "a", "b", "c", "d", "e", "f">>

RECURSIVE Hex(_, _)
Hex(n, width) ==
    IF width = 0 THEN ""
    ELSE Hex(n \div 16, width - 1) \o HexDigits[(n % 16) + 1]

\* values secrets.token_hex(4) returns: 8 lowercase hex characters
Tokens == {Hex(i, 8) : i \in 1..NumTokens}

\* pbkdf2_hmac over "{name}:{mobile}" with the server secret, as a function
\* of the derivation input
generate_patient_id(name, mobile) ==
    LET raw == name \o ":" \o mobile
    IN "pbkdf2(" \o raw \o ")"

\* PatientSubmission.save through objects.create: the row is inserted under
\* the token drawn, or the unique constraint on record_id raises
\* IntegrityError; the result is <<error, table>>
PatientSubmissionCreate(token, fields) ==
    IF token \in DOMAIN submissions
    THEN <<"IntegrityError", submissions>>
    ELSE <<"", (token :> fields) @@ submissions>>

\* send_redflag_email without the try/except around the SendGrid client
send_redflag_email_uncaught(api_key, sendgrid_raises) ==
    IF api_key = "" THEN "not_configured"
    ELSE IF sendgrid_raises THEN "raised"
    ELSE "sent"

\* outcome of send_redflag_email: returns early without an API key; an
\* exception of the SendGrid client is logged and swallowed
send_redflag_email(api_key, sendgrid_raises) ==
    IF api_key = "" THEN "not_configured"
    ELSE IF sendgrid_raises THEN "failed_logged"
    ELSE "sent"

\* send_redflag_email called without the `if red_flag_payload` test
NotificationCallsAlways(red_flag_payload) == <<red_flag_payload>>

\* `if red_flag_payload: send_redflag_email(...)`: the calls made to the
\* notification sink by one request, each with its payload
NotificationCalls(red_flag_payload) ==
    IF red_flag_payload /= <<>> THEN <<red_flag_payload>> ELSE <<>>

\* `if red_flags: submission.red_flags.set(red_flags)`
AttachRedFlags(table, token, red_flags) ==
    IF red_flags /= <<>>
    THEN [table EXCEPT ![token].red_flags = Range(red_flags)]
    ELSE table

----------------------------------------------------------------------------
(* The outcome of a request, as the model records it *)

Outcome(status, error, post, order, collected, red_flag_ids, record_id, calls, email) ==
    [status       |-> status,        \* "ok", "not_found", "redirect", "server_error"
     error        |-> error,         \* exception that ended the request, or ""
     post         |-> post,          \* request.POST as read by the POST branch
     order        |-> order,         \* the questions list
     active       |-> collected.active,
     answers      |-> collected.answers,
     red_flag_ids |-> red_flag_ids,  \* the triggered set
     record_id    |-> record_id,     \* of the row created, or NULL
     calls        |-> calls,         \* calls of send_redflag_email
     email        |-> email]         \* what send_redflag_email did, or "none"

NothingCollected == [answers |-> <<>>, active |-> {}, error |-> ""]

EarlyOutcome(status) ==
    Outcome(status, "", <<>>, <<>>, NothingCollected, {}, NULL, <<>>, "none")

----------------------------------------------------------------------------
(* Parts of the state a specification leaves alone *)

\* callers of Doctor.save that can run at the same time
Savers == {"w1", "w2"}

NotSaving == [phase |-> "idle"]

DoctorsIdle ==
    /\ doctor_rows = <<>>
    /\ saving = [w \in Savers |-> NotSaving]

NoText == [kind |-> "none"]

TextsIdle ==
    /\ question_translations = {}
    /\ option_translations = {}
    /\ resolved = NoText

\* the models ingest_forms writes; a table is the sequence of its rows, a
\* row's pk its position
Tables ==
    {"Language", "Form", "FormTranslation", "Question", "QuestionTranslation",
     "QuestionCondition", "QuestionOption", "OptionTranslation", "RedFlag",
     "RedFlagTranslation", "OptionRedFlagMap"}

EmptyDb == [t \in Tables |-> <<>>]

IngestIdle == db = EmptyDb

HistoryIdle ==
    /\ orphaned = {}
    /\ derived = {}

----------------------------------------------------------------------------
(* patient_form *)

\* slug, form_id and ?lang= of a request
Request(slug, form_id, language_code) ==
    [slug |-> slug, form_id |-> form_id, language_code |-> language_code]

NoRequest == Request(NULL, NULL, NULL)

\* no request is between the two loops of the POST branch
Idle == [phase |-> "idle"]

\* the three lookups with the check of the language code left out
NotFoundIgnoringLanguage(slug, form_id, language_code) ==
    \/ slug \notin DOMAIN doctors
    \/ form_id \notin forms

\* the three get_object_or_404 lookups: TRUE when one of them raises Http404
NotFound(slug, form_id, language_code) ==
    \/ slug \notin DOMAIN doctors
    \/ form_id \notin forms
    \/ language_code \notin languages

\* get_object_or_404 on the doctor slug, the form_id or the language code
PatientFormNotFound ==
    /\ \E slug \in Slugs, form_id \in FormIds, language_code \in LangCodes :
          /\ NotFound(slug, form_id, language_code)
          /\ request' = Request(slug, form_id, language_code)
          /\ last' = EarlyOutcome("not_found")
    /\ UNCHANGED <<catalog_vars, submissions, req>>
    /\ UNCHANGED <<doctor_vars, text_vars, ingest_vars, history_vars>>

\* no patient name or mobile in the session: redirect to patient_start
PatientFormNoSession ==
    /\ \E slug \in Slugs, form_id \in FormIds, language_code \in LangCodes,
          session \in Sessions :
          /\ ~NotFound(slug, form_id, language_code)
          /\ session.patient_name = NULL \/ session.patient_mobile = NULL
          /\ request' = Request(slug, form_id, language_code)
          /\ last' = EarlyOutcome("redirect")
    /\ UNCHANGED <<catalog_vars, submissions, req>>
    /\ UNCHANGED <<doctor_vars, text_vars, ingest_vars, history_vars>>

\* the POST branch
PatientFormPost ==
    /\ \E slug \in Slugs, form_id \in FormIds, language_code \in LangCodes,
          session \in Sessions, post \in PostBodies :
        /\ ~NotFound(slug, form_id, language_code)
        /\ session.patient_name /= NULL /\ session.patient_mobile /= NULL
        /\ request' = Request(slug, form_id, language_code)
        /\ \E qs \in OrderedQuestions(form_id) :
            LET collected == CollectAnswers(qs, post, NothingCollected)
            IN IF collected.error /= ""
               THEN /\ last' = Outcome("server_error", collected.error, post, qs,
                                       collected, {}, NULL, <<>>, "none")
                    /\ UNCHANGED submissions
               ELSE
                 LET red_flag_ids == MatchRedFlags(qs, collected.answers, {})
                 IN \E red_flags \in RedFlagLists(red_flag_ids), token \in Tokens :
                   LET fields ==
                           [patient_id |-> generate_patient_id(session.patient_name,
                                                               session.patient_mobile),
                            doctor     |-> slug,
                            form       |-> form_id,
                            language   |-> language_code,
                            responses  |-> collected.answers,
                            red_flags  |-> {}]
                       created == PatientSubmissionCreate(token, fields)
                   IN IF created[1] /= ""
                      THEN /\ last' = Outcome("server_error", created[1], post, qs,
                                              collected, red_flag_ids, NULL, <<>>, "none")
                           /\ UNCHANGED submissions
                      ELSE
                        LET red_flag_payload == RedFlagPayload(red_flags, language_code)
                            calls == NotificationCalls(red_flag_payload)
                        IN \E run \in (IF calls /= <<>> THEN SendRuns ELSE {<<"", FALSE>>}) :
                             LET email == IF calls /= <<>>
                                          THEN send_redflag_email(run[1], run[2])
                                          ELSE "none"
                             IN /\ submissions' = AttachRedFlags(created[2], token, red_flags)
                                /\ last' = IF email = "raised"
                                           THEN Outcome("server_error", "Exception", post,
                                                        qs, collected, red_flag_ids,
                                                        token, calls, email)
                                           ELSE Outcome("ok", "", post, qs, collected,
                                                        red_flag_ids, token, calls, email)
    /\ UNCHANGED <<catalog_vars, req>>
    /\ UNCHANGED <<doctor_vars, text_vars, ingest_vars, history_vars>>

----------------------------------------------------------------------------
(* Specification *)

Init ==
    /\ \E c \in Catalogs :
          /\ questions = c.questions
          /\ options = c.options
          /\ conditions = c.conditions
          /\ option_redflag_map = c.option_redflag_map
    /\ submissions = <<>>
    /\ last = EarlyOutcome("none")
    /\ request = NoRequest
    /\ req = Idle
    /\ DoctorsIdle /\ TextsIdle /\ IngestIdle /\ HistoryIdle

Next ==
    \/ PatientFormNotFound
    \/ PatientFormNoSession
    \/ PatientFormPost

Spec == Init /\ [][Next]_vars

----------------------------------------------------------------------------
(* patient_form next to administrative edits of the catalog *)

\* what the two loops of the POST branch yield when both run against the
\* catalog as it is in one state
EvaluateAt(qs, post) ==
    LET collected == CollectAnswers(qs, post, NothingCollected)
    IN [error        |-> collected.error,
        answers      |-> collected.answers,
        red_flag_ids |-> IF collected.error /= "" THEN {}
                         ELSE MatchRedFlags(qs, collected.answers, {})]

\* the catalog the interleavings start from: Q2 is shown for O2 or O3
SnapshotCatalogs ==
    {CatalogFor(SELECT, 3, "Q1", {"O2", "O3"}, FALSE)}

\* lines 121-148 of a POST: the lookups, the questions list with its
\* prefetched condition rows, and the first loop over it
PatientFormCollect ==
    /\ req.phase /= "collected"
    /\ \E slug \in Slugs, form_id \in FormIds, language_code \in LangCodes,
          session \in Sessions, post \in PostBodies :
        /\ ~NotFound(slug, form_id, language_code)
        /\ session.patient_name /= NULL /\ session.patient_mobile /= NULL
        /\ request' = Request(slug, form_id, language_code)
        /\ \E qs \in OrderedQuestions(form_id) :
            LET collected == CollectAnswers(qs, post, NothingCollected)
            IN IF collected.error /= ""
               THEN /\ last' = Outcome("server_error", collected.error, post, qs,
                                       collected, {}, NULL, <<>>, "none")
                    /\ req' = Idle
               ELSE /\ req' = [phase     |-> "collected",
                               session   |-> session,
                               post      |-> post,
                               order     |-> qs,
                               collected |-> collected,
                               coherent  |-> {EvaluateAt(qs, post)}]
                    /\ UNCHANGED last
    /\ UNCHANGED <<catalog_vars, submissions>>
    /\ UNCHANGED <<doctor_vars, text_vars, ingest_vars, history_vars>>

\* lines 150-198 of the same POST: the second loop, which queries
\* QuestionOption and OptionRedFlagMap for every selected option, then the
\* submission row and the notification
PatientFormFinish ==
    /\ req.phase = "collected"
    /\ LET red_flag_ids == MatchRedFlags(req.order, req.collected.answers, {})
       IN \E red_flags \in RedFlagLists(red_flag_ids), token \in Tokens :
           LET fields ==
                   [patient_id |-> generate_patient_id(req.session.patient_name,
                                                       req.session.patient_mobile),
                    doctor     |-> request.slug,
                    form       |-> request.form_id,
                    language   |-> request.language_code,
                    responses  |-> req.collected.answers,
                    red_flags  |-> {}]
               created == PatientSubmissionCreate(token, fields)
           IN IF created[1] /= ""
              THEN /\ last' = Outcome("server_error", created[1], req.post,
                                      req.order, req.collected, red_flag_ids,
                                      NULL, <<>>, "none")
                   /\ UNCHANGED submissions
              ELSE
                LET red_flag_payload ==
                        RedFlagPayload(red_flags, request.language_code)
                    calls == NotificationCalls(red_flag_payload)
                IN \E run \in (IF calls /= <<>> THEN SendRuns ELSE {<<"", FALSE>>}) :
                     LET email == IF calls /= <<>>
                                  THEN send_redflag_email(run[1], run[2])
                                  ELSE "none"
                     IN /\ submissions' = AttachRedFlags(created[2], token, red_flags)
                        /\ last' = IF email = "raised"
                                   THEN Outcome("server_error", "Exception", req.post,
                                                req.order, req.collected,
                                                red_flag_ids, token, calls, email)
                                   ELSE Outcome("ok", "", req.post, req.order,
                                                req.collected, red_flag_ids,
                                                token, calls, email)
    /\ req' = [phase |-> "done", coherent |-> req.coherent]
    /\ UNCHANGED <<catalog_vars, request>>
    /\ UNCHANGED <<doctor_vars, text_vars, ingest_vars, history_vars>>

\* the admin site deletes a QuestionOption: on_delete=CASCADE removes the
\* QuestionCondition rows it triggers and its OptionRedFlagMap rows
AdminDeleteOption ==
    /\ \E option_id \in DOMAIN options :
          /\ options' = [o \in DOMAIN options \ {option_id} |-> options[o]]
          /\ conditions' = {c \in conditions : c[2] /= option_id}
          /\ option_redflag_map' = {m \in option_redflag_map : m[1] /= option_id}
    /\ UNCHANGED <<questions, submissions, last, request>>
    /\ UNCHANGED <<doctor_vars, text_vars, ingest_vars, history_vars>>
    /\ IF req.phase = "collected"
       THEN \E qs \in {req.order}, post \in {req.post} :
               req' = [req EXCEPT !.coherent = @ \cup {EvaluateAt(qs, post)'}]
       ELSE UNCHANGED req

InitSnapshot ==
    /\ \E c \in SnapshotCatalogs :
          /\ questions = c.questions
          /\ options = c.options
          /\ conditions = c.conditions
          /\ option_redflag_map = c.option_redflag_map
    /\ submissions = <<>>
    /\ last = EarlyOutcome("none")
    /\ request = NoRequest
    /\ req = Idle
    /\ DoctorsIdle /\ TextsIdle /\ IngestIdle /\ HistoryIdle

NextSnapshot ==
    \/ PatientFormCollect
    \/ PatientFormFinish
    \/ AdminDeleteOption

SpecSnapshot == InitSnapshot /\ [][NextSnapshot]_vars

----------------------------------------------------------------------------
(* patient_form after deletions of questions by the admin site *)

\* the Question table after a delete that takes the children along
\* (on_delete=CASCADE on parent_question)
QuestionsAfterDeleteCascade(question_id) ==
    [q \in {q \in DOMAIN questions \ {question_id} :
                questions[q].parent_question /= question_id}
        |-> questions[q]]

\* the Question table after Question.delete(): parent_question is
\* on_delete=SET_NULL, so the children stay and lose their parent
QuestionsAfterDelete(question_id) ==
    [q \in DOMAIN questions \ {question_id} |->
        IF questions[q].parent_question = question_id
        THEN [questions[q] EXCEPT !.parent_question = NULL]
        ELSE questions[q]]

\* the catalogs the deletions start from: a child Q2 of Q1, and a chain
\* Q1 - Q1_text - Q2
AdminCatalogs ==
    {CatalogFor(SELECT, 3, "Q1", {"O2"}, FALSE),
     CatalogFor(MULTI_SELECT, 3, TextKey("Q1"), {"O4"}, TRUE)}

\* the admin site deletes a Question: on_delete=CASCADE removes its
\* translations, its options with their translations, condition rows and
\* OptionRedFlagMap rows, and the condition rows of the question itself
AdminDeleteQuestion ==
    /\ \E question_id \in DOMAIN questions :
          LET own == {o \in DOMAIN options : options[o] = question_id}
              children == {c \in DOMAIN questions :
                              questions[c].parent_question = question_id}
          IN /\ questions' = QuestionsAfterDelete(question_id)
             /\ options' = [o \in DOMAIN options \ own |-> options[o]]
             /\ conditions' = {c \in conditions :
                                  c[1] /= question_id /\ c[2] \notin own}
             /\ option_redflag_map' = {m \in option_redflag_map : m[1] \notin own}
             /\ question_translations' =
                    {t \in question_translations : t.question /= question_id}
             /\ option_translations' =
                    {t \in option_translations : t.option \notin own}
             /\ orphaned' = (orphaned \cup children) \ {question_id}
    /\ UNCHANGED <<submissions, last, request, req, resolved, derived>>
    /\ UNCHANGED <<doctor_vars, ingest_vars>>

InitAdmin ==
    /\ \E c \in AdminCatalogs :
          /\ questions = c.questions
          /\ options = c.options
          /\ conditions = c.conditions
          /\ option_redflag_map = c.option_redflag_map
    /\ submissions = <<>>
    /\ last = EarlyOutcome("none")
    /\ request = NoRequest
    /\ req = Idle
    /\ DoctorsIdle /\ TextsIdle /\ IngestIdle /\ HistoryIdle

NextAdmin ==
    \/ PatientFormPost
    \/ AdminDeleteQuestion

SpecAdmin == InitAdmin /\ [][NextAdmin]_vars

----------------------------------------------------------------------------
(* generate_patient_id over the names and mobiles PatientStartForm accepts *)

\* patient_name and patient_mobile are CharFields without validators: any
\* non-empty text passes, a ':' included (the mobile up to 15 characters)
PatientNames == {"a", "a:b", "Jane Doe"}
PatientMobiles == {"c", "b:c", "5551234"}

\* patient_form derives the patient_id of the name and mobile of the session
GeneratePatientId ==
    /\ \E name \in PatientNames, mobile \in PatientMobiles :
          derived' = derived \cup
              {[name |-> name, mobile |-> mobile,
                patient_id |-> generate_patient_id(name, mobile)]}
    /\ UNCHANGED <<eval_vars, doctor_vars, text_vars, ingest_vars, orphaned>>

InitPatientId ==
    /\ \E c \in AdminCatalogs :
          /\ questions = c.questions
          /\ options = c.options
          /\ conditions = c.conditions
          /\ option_redflag_map = c.option_redflag_map
    /\ submissions = <<>>
    /\ last = EarlyOutcome("none")
    /\ request = NoRequest
    /\ req = Idle
    /\ DoctorsIdle /\ TextsIdle /\ IngestIdle /\ HistoryIdle

NextPatientId == GeneratePatientId

SpecPatientId == InitPatientId /\ [][NextPatientId]_vars

----------------------------------------------------------------------------
(* Doctor.save (models.py) *)

\* number of Doctor rows the model stores
MaxDoctors == 3

\* a string as the sequence of its characters
Join(chars) ==
    LET RECURSIVE J(_)
        J(cs) == IF cs = <<>> THEN "" ELSE Head(cs) \o J(Tail(cs))
    IN J(chars)

\* str(n) for a counter
Dec(n) ==
    LET digit == <<"0", "1", "2", "3", "4", "5", "6", "7", "8", "9">>
        RECURSIVE D(_)
        D(k) == IF k < 10 THEN digit[k + 1]
                ELSE D(k \div 10) \o digit[(k % 10) + 1]
    IN D(n)

\* str.lower() on one character of the model's alphabet
AsciiLower(c) ==
    CASE c = "A" -> <<"a">>
      [] c = "B" -> <<"b">>
      [] OTHER   -> <<c>>

\* \w, and the characters of [-\s]
WordChars == {"a", "b", "n", "2", "_"}
Separators == {"-", " "}

\* django.utils.text.slugify on a sequence of characters
slugify(value) ==
    LET RECURSIVE Lowered(_)
        Lowered(cs) == IF cs = <<>> THEN <<>>
                       ELSE AsciiLower(Head(cs)) \o Lowered(Tail(cs))
        Kept(c) == c \in WordChars \cup Separators
        RECURSIVE SkipSeparators(_)
        SkipSeparators(cs) ==
            IF cs /= <<>> /\ Head(cs) \in Separators
            THEN SkipSeparators(Tail(cs)) ELSE cs
        RECURSIVE Collapsed(_)
        Collapsed(cs) ==
            IF cs = <<>> THEN <<>>
            ELSE IF Head(cs) \in Separators
                 THEN <<"-">> \o Collapsed(SkipSeparators(Tail(cs)))
                 ELSE <<Head(cs)>> \o Collapsed(Tail(cs))
        RECURSIVE Stripped(_)
        Stripped(cs) ==
            IF cs = <<>> THEN <<>>
            ELSE IF Head(cs) \in {"-", "_"} THEN Stripped(Tail(cs))
            ELSE IF cs[Len(cs)] \in {"-", "_"}
                 THEN Stripped(SubSeq(cs, 1, Len(cs) - 1))
            ELSE cs
    IN Join(Stripped(Collapsed(SelectSeq(Lowered(value), Kept))))

\* base = slugify(f"{self.name}-{self.clinic_name}") or "doctor"
BaseSlug(name, clinic_name) ==
    LET slug == slugify(name \o <<"-">> \o clinic_name)
    IN IF slug = "" THEN "doctor" ELSE slug

\* the while loop with the suffix one behind the counter
UniqueSlugSuffixFromOne(base, taken) ==
    LET RECURSIVE Loop(_)
        Loop(counter) ==
            LET slug == IF counter = 1 THEN base
                        ELSE base \o "-" \o Dec(counter - 1)
            IN IF slug \in taken THEN Loop(counter + 1) ELSE slug
    IN Loop(1)

\* the while loop of Doctor.save; taken: the shareable_slug values the
\* query finds in the table
UniqueSlug(base, taken) ==
    LET RECURSIVE Loop(_)
        Loop(counter) ==
            LET slug == IF counter = 1 THEN base
                        ELSE base \o "-" \o Dec(counter)
            IN IF slug \in taken THEN Loop(counter + 1) ELSE slug
    IN Loop(1)

\* name and clinic_name posted to doctor_setup, as character sequences
DoctorInputs ==
    {[name |-> <<"A", "n", "n", "!">>, clinic_name |-> <<" ", "B", " ">>],
     [name |-> <<"a", "n", "n">>,      clinic_name |-> <<"b", "-", "2">>],
     [name |-> <<"!">>,                clinic_name |-> <<"?">>]}

StoredSlugs == {doctor_rows[pk].shareable_slug : pk \in DOMAIN doctor_rows}

\* Doctor.save on a new instance, up to `self.shareable_slug = slug`
DoctorSaveSlug(w) ==
    /\ saving[w].phase /= "computed"
    /\ Len(doctor_rows) < MaxDoctors
    /\ \E input \in DoctorInputs :
          LET base == BaseSlug(input.name, input.clinic_name)
          IN saving' = [saving EXCEPT ![w] =
                            [phase |-> "computed",
                             name |-> input.name,
                             clinic_name |-> input.clinic_name,
                             shareable_slug |-> UniqueSlug(base, StoredSlugs)]]
    /\ UNCHANGED doctor_rows
    /\ UNCHANGED <<eval_vars, text_vars, ingest_vars, history_vars>>

\* super().save(): the INSERT, which the unique index on shareable_slug
\* rejects with IntegrityError when the slug is stored already
DoctorSaveInsert(w) ==
    /\ saving[w].phase = "computed"
    /\ IF saving[w].shareable_slug \in StoredSlugs
       THEN /\ saving' = [saving EXCEPT ![w] = [phase |-> "IntegrityError"]]
            /\ UNCHANGED doctor_rows
       ELSE /\ doctor_rows' = Append(doctor_rows,
                                 [name |-> saving[w].name,
                                  clinic_name |-> saving[w].clinic_name,
                                  shareable_slug |-> saving[w].shareable_slug])
            /\ saving' = [saving EXCEPT ![w] = [phase |-> "stored"]]
    /\ UNCHANGED <<eval_vars, text_vars, ingest_vars, history_vars>>

\* Doctor.save on a stored row whose name and clinic were edited: the
\* slug is set, so the block under `if not self.shareable_slug` is skipped
DoctorSaveAgain ==
    /\ \E pk \in DOMAIN doctor_rows, input \in DoctorInputs :
          /\ doctor_rows[pk].name /= input.name
          /\ doctor_rows' = [doctor_rows EXCEPT
                                ![pk].name = input.name,
                                ![pk].clinic_name = input.clinic_name]
    /\ UNCHANGED saving
    /\ UNCHANGED <<eval_vars, text_vars, ingest_vars, history_vars>>

InitDoctors ==
    /\ \E c \in SnapshotCatalogs :
          /\ questions = c.questions
          /\ options = c.options
          /\ conditions = c.conditions
          /\ option_redflag_map = c.option_redflag_map
    /\ submissions = <<>>
    /\ last = EarlyOutcome("none")
    /\ request = NoRequest
    /\ req = Idle
    /\ DoctorsIdle /\ TextsIdle /\ IngestIdle /\ HistoryIdle

NextDoctors ==
    \/ \E w \in Savers : DoctorSaveSlug(w)
    \/ \E w \in Savers : DoctorSaveInsert(w)
    \/ DoctorSaveAgain

SpecDoctors == InitDoctors /\ [][NextDoctors]_vars

----------------------------------------------------------------------------
(* Localised question and option texts, and the GET branch (views.py) *)

QuestionTranslation(question_id, language) ==
    [question |-> question_id, language |-> language,
     question_text |-> language \o " text of " \o question_id]

OptionTranslation(option_id, language) ==
    [option |-> option_id, language |-> language,
     option_text |-> language \o " text of " \o option_id]

\* a text, or the exception that left the function
Text(text) == [error |-> "", text |-> text]
Raised(error) == [error |-> error, text |-> NULL]

\* _get_question_text with the DoesNotExist of the first lookup not caught
_get_question_text_no_fallback(question_id, language) ==
    LET rows == {t \in question_translations :
                    t.question = question_id /\ t.language = language}
    IN IF rows /= {} THEN Text((CHOOSE t \in rows : TRUE).question_text)
       ELSE Raised("DoesNotExist")

\* the row of the requested language, else the first English row; with
\* neither, `.first()` is None and reading question_text off it raises
_get_question_text(question_id, language) ==
    LET rows == {t \in question_translations :
                    t.question = question_id /\ t.language = language}
        english == {t \in question_translations :
                       t.question = question_id /\ t.language = "en"}
    IN IF rows /= {} THEN Text((CHOOSE t \in rows : TRUE).question_text)
       ELSE IF english /= {}
            THEN Text((CHOOSE t \in english : TRUE).question_text)
            ELSE Raised("AttributeError")

\* the names views.py imports from .models
ViewsImports ==
    {"Doctor", "DoctorLink", "Form", "FormTranslation", "Language",
     "OptionRedFlagMap", "PatientSubmission", "Question", "QuestionCondition",
     "QuestionOption", "QuestionTranslation", "RedFlag", "RedFlagTranslation",
     "generate_patient_id"}

\* the row of the requested language; without it the except clause names
\* OptionTranslation, which views.py does not import, and evaluating the
\* clause raises NameError in place of running the fallback
_option_text(option_id, language) ==
    LET rows == {t \in option_translations :
                    t.option = option_id /\ t.language = language}
        english == {t \in option_translations :
                       t.option = option_id /\ t.language = "en"}
    IN IF rows /= {} THEN Text((CHOOSE t \in rows : TRUE).option_text)
       ELSE IF "OptionTranslation" \notin ViewsImports THEN Raised("NameError")
       ELSE IF english /= {}
            THEN Text((CHOOSE t \in english : TRUE).option_text)
            ELSE Text(option_id)

\* the form the text lookups run on
TextCatalogs ==
    {[questions |-> ("Q1" :> Question("F1", 1, SELECT, NULL, FALSE))
                    @@ ("Q2" :> Question("F1", 2, SELECT, "Q1", TRUE)),
      options |-> ("O1" :> "Q1") @@ ("O5" :> "Q2"),
      conditions |-> {<<"Q2", "O1">>},
      option_redflag_map |-> {<<"O5", "RF2">>}]}

\* _get_question_text(question, language)
QuestionText ==
    /\ \E question_id \in DOMAIN questions, language \in languages :
          resolved' = [kind |-> "question", id |-> question_id,
                       language |-> language,
                       result |-> _get_question_text(question_id, language)]
    /\ UNCHANGED <<question_translations, option_translations>>
    /\ UNCHANGED <<eval_vars, doctor_vars, ingest_vars, history_vars>>

\* _option_text(option, language)
OptionText ==
    /\ \E option_id \in DOMAIN options, language \in languages :
          resolved' = [kind |-> "option", id |-> option_id,
                       language |-> language,
                       result |-> _option_text(option_id, language)]
    /\ UNCHANGED <<question_translations, option_translations>>
    /\ UNCHANGED <<eval_vars, doctor_vars, ingest_vars, history_vars>>

\* _redflag_patient_text and _redflag_doctor_text, as the payload of the
\* POST branch calls them for one red flag
RedFlagText ==
    /\ \E red_flag_id \in DOMAIN redflags, language \in languages :
          resolved' = [kind |-> "red_flag", id |-> red_flag_id,
                       language |-> language,
                       result |-> RedFlagPayload(<<red_flag_id>>, language)[1]]
    /\ UNCHANGED <<question_translations, option_translations>>
    /\ UNCHANGED <<eval_vars, doctor_vars, ingest_vars, history_vars>>

\* the loop of the GET branch: the text of each question, then the texts
\* of its options; the first exception ends the request
RECURSIVE RenderQuestions(_, _, _)
RenderQuestions(qs, language, acc) ==
    IF qs = <<>> \/ acc.error /= "" THEN acc
    ELSE LET question_id == Head(qs)
             text == _get_question_text(question_id, language)
             own == {o \in DOMAIN options : options[o] = question_id}
             texts == [o \in own |-> _option_text(o, language)]
             failed == {o \in own : texts[o].error /= ""}
         IN IF text.error /= "" THEN Raised(text.error)
            ELSE IF failed /= {}
                 THEN Raised(texts[CHOOSE o \in failed : TRUE].error)
            ELSE RenderQuestions(Tail(qs), language,
                     Text((question_id :> text.text)
                          @@ [o \in own |-> texts[o].text]
                          @@ acc.text))

\* patient_form on GET: the lookups, the session check, the questions list
\* and the rendered questions handed to the template
PatientFormGet ==
    /\ \E slug \in Slugs, form_id \in FormIds, language_code \in languages,
          session \in Sessions :
          /\ ~NotFound(slug, form_id, language_code)
          /\ session.patient_name /= NULL /\ session.patient_mobile /= NULL
          /\ \E qs \in OrderedQuestions(form_id) :
                resolved' = [kind |-> "page", id |-> form_id,
                             language |-> language_code,
                             result |-> RenderQuestions(qs, language_code,
                                                        Text(<<>>))]
    /\ UNCHANGED <<question_translations, option_translations>>
    /\ UNCHANGED <<eval_vars, doctor_vars, ingest_vars, history_vars>>

\* the translation tables the lookups start from: any rows of the form's
\* questions and options in the two languages
InitTexts ==
    /\ \E c \in TextCatalogs :
          /\ questions = c.questions
          /\ options = c.options
          /\ conditions = c.conditions
          /\ option_redflag_map = c.option_redflag_map
          /\ \E pairs \in SUBSET ((DOMAIN c.questions) \X languages) :
                question_translations =
                    {QuestionTranslation(p[1], p[2]) : p \in pairs}
          /\ \E pairs \in SUBSET ((DOMAIN c.options) \X languages) :
                option_translations =
                    {OptionTranslation(p[1], p[2]) : p \in pairs}
    /\ resolved = NoText
    /\ submissions = <<>>
    /\ last = EarlyOutcome("none")
    /\ request = NoRequest
    /\ req = Idle
    /\ DoctorsIdle /\ IngestIdle /\ HistoryIdle

NextTexts ==
    \/ QuestionText
    \/ OptionText
    \/ RedFlagText
    \/ PatientFormGet

SpecTexts == InitTexts /\ [][NextTexts]_vars

----------------------------------------------------------------------------
(* The ingest_forms command (management/commands/ingest_forms.py) *)

\* the pks of the rows of a table that match the lookup kwargs
Matching(table, kwargs) ==
    {pk \in DOMAIN table : \A f \in DOMAIN kwargs : table[pk][f] = kwargs[f]}

\* the least pk of a set: `.first()`, and the dict a loader builds by code
FirstPk(pks) == CHOOSE pk \in pks : \A other \in pks : pk <= other

\* update_or_create that inserts without looking for the row
update_or_create_insert_only(table, kwargs, defaults) ==
    [error |-> "", pk |-> Len(table) + 1,
     table |-> Append(table, kwargs @@ defaults)]

\* Model.objects.update_or_create(**kwargs, defaults=defaults)
update_or_create(table, kwargs, defaults) ==
    LET found == Matching(table, kwargs)
    IN IF found = {}
       THEN [error |-> "", pk |-> Len(table) + 1,
             table |-> Append(table, kwargs @@ defaults)]
       ELSE IF Cardinality(found) > 1
            THEN [error |-> "MultipleObjectsReturned", pk |-> 0, table |-> table]
            ELSE LET pk == FirstPk(found)
                 IN [error |-> "", pk |-> pk,
                     table |-> [table EXCEPT ![pk] = defaults @@ table[pk]]]

\* the command while it runs: the tables, the exception that ended it, and
\* the dicts _load_questions, _load_options and _load_redflags return
Running(tables) ==
    [db |-> tables, error |-> "", questions |-> <<>>, options |-> <<>>,
     redflags |-> <<>>]

\* the outcome r of an update_or_create on a model, taken into the run
Put(st, model, r) ==
    [st EXCEPT !.error = r.error, !.db = [@ EXCEPT ![model] = r.table]]

\* {lang.code: lang for lang in Language.objects.all()}
LanguagesByCode(tables) ==
    LET codes == {tables.Language[pk].code : pk \in DOMAIN tables.Language}
    IN [c \in codes |-> FirstPk(Matching(tables.Language, [code |-> c]))]

_load_languages(df, st0) ==
    LET RECURSIVE Rows(_, _)
        Rows(rows, st) ==
            IF rows = <<>> \/ st.error /= "" THEN st
            ELSE LET row == Head(rows)
                     r == update_or_create(st.db.Language, [code |-> row.code],
                                           [name |-> row.name])
                 IN Rows(Tail(rows), Put(st, "Language", r))
    IN Rows(df, st0)

\* the sheet with a form_id column and one name column per language
_load_forms(df, st0) ==
    LET languages_by_code == LanguagesByCode(st0.db)
        RECURSIVE Names(_, _, _, _)
        Names(pks, row, form, st) ==
            IF pks = {} \/ st.error /= "" THEN st
            ELSE LET language == FirstPk(pks)
                     code == st.db.Language[language].code
                 IN IF code \notin DOMAIN row.form_name
                    THEN Names(pks \ {language}, row, form, st)
                    ELSE Names(pks \ {language}, row, form,
                             Put(st, "FormTranslation",
                                 update_or_create(st.db.FormTranslation,
                                     [form |-> form, language |-> language],
                                     [form_name |-> row.form_name[code]])))
        RECURSIVE Rows(_, _)
        Rows(rows, st) ==
            IF rows = <<>> \/ st.error /= "" THEN st
            ELSE LET row == Head(rows)
                     r == update_or_create(st.db.Form, [form_id |-> row.form_id],
                                           [description |-> row.description])
                 IN Rows(Tail(rows),
                         Names({languages_by_code[c] : c \in DOMAIN languages_by_code},
                               row, r.pk, Put(st, "Form", r)))
    IN Rows(df, st0)

_load_questions(df, st0) ==
    LET RECURSIVE Rows(_, _)
        Rows(rows, st) ==
            IF rows = <<>> \/ st.error /= "" THEN st
            ELSE LET row == Head(rows)
                     form == Matching(st.db.Form, [form_id |-> row.form_id])
                     parents == Matching(st.db.Question,
                                         [question_id |-> row.parent_question_id])
                     parent == IF row.parent_question_id = NULL \/ parents = {}
                               THEN NULL ELSE FirstPk(parents)
                 IN IF form = {} THEN [st EXCEPT !.error = "DoesNotExist"]
                    ELSE LET r == update_or_create(st.db.Question,
                                      [question_id |-> row.question_id],
                                      [form |-> FirstPk(form),
                                       sequence_no |-> row.sequence_no,
                                       question_type |-> row.question_type,
                                       parent_question |-> parent,
                                       shows_text_field |-> row.shows_text_field])
                             st1 == Put(st, "Question", r)
                         IN Rows(Tail(rows),
                                 [st1 EXCEPT !.questions =
                                     (row.question_id :> r.pk) @@ @])
    IN Rows(df, st0)

\* the sheet with a language_code column
_load_question_translations(df, st0) ==
    LET languages_by_code == LanguagesByCode(st0.db)
        RECURSIVE Rows(_, _)
        Rows(rows, st) ==
            IF rows = <<>> \/ st.error /= "" THEN st
            ELSE LET entry == Head(rows)
                 IN IF \/ entry.question_id \notin DOMAIN st.questions
                       \/ entry.language_code \notin DOMAIN languages_by_code
                    THEN Rows(Tail(rows), st)
                    ELSE Rows(Tail(rows),
                             Put(st, "QuestionTranslation",
                                 update_or_create(st.db.QuestionTranslation,
                                     [question |-> st.questions[entry.question_id],
                                      language |-> languages_by_code[entry.language_code]],
                                     [question_text |-> entry.question_text])))
    IN Rows(df, st0)

\* a row whose trigger option is not in the QuestionOption table is skipped
_load_question_conditions(df, st0) ==
    LET RECURSIVE Rows(_, _)
        Rows(rows, st) ==
            IF rows = <<>> \/ st.error /= "" THEN st
            ELSE LET row == Head(rows)
                     option == Matching(st.db.QuestionOption,
                                        [option_id |-> row.trigger_option_id])
                 IN IF row.question_id \notin DOMAIN st.questions \/ option = {}
                    THEN Rows(Tail(rows), st)
                    ELSE Rows(Tail(rows),
                             Put(st, "QuestionCondition",
                                 update_or_create(st.db.QuestionCondition,
                                     [question |-> st.questions[row.question_id],
                                      trigger_option |-> FirstPk(option)],
                                     <<>>)))
    IN Rows(df, st0)

_load_options(df, st0) ==
    LET RECURSIVE Rows(_, _)
        Rows(rows, st) ==
            IF rows = <<>> \/ st.error /= "" THEN st
            ELSE LET row == Head(rows)
                     question == Matching(st.db.Question,
                                          [question_id |-> row.question_id])
                 IN IF question = {} THEN [st EXCEPT !.error = "DoesNotExist"]
                    ELSE LET r == update_or_create(st.db.QuestionOption,
                                      [option_id |-> row.option_id],
                                      [question |-> FirstPk(question)])
                             st1 == Put(st, "QuestionOption", r)
                         IN Rows(Tail(rows),
                                 [st1 EXCEPT !.options = (row.option_id :> r.pk) @@ @])
    IN Rows(df, st0)

\* the sheet with a language_code column
_load_option_translations(df, st0) ==
    LET languages_by_code == LanguagesByCode(st0.db)
        RECURSIVE Rows(_, _)
        Rows(rows, st) ==
            IF rows = <<>> \/ st.error /= "" THEN st
            ELSE LET entry == Head(rows)
                 IN IF \/ entry.option_id \notin DOMAIN st.options
                       \/ entry.language_code \notin DOMAIN languages_by_code
                    THEN Rows(Tail(rows), st)
                    ELSE Rows(Tail(rows),
                             Put(st, "OptionTranslation",
                                 update_or_create(st.db.OptionTranslation,
                                     [option |-> st.options[entry.option_id],
                                      language |-> languages_by_code[entry.language_code]],
                                     [option_text |-> entry.option_text])))
    IN Rows(df, st0)

_load_redflags(df, st0) ==
    LET RECURSIVE Rows(_, _)
        Rows(rows, st) ==
            IF rows = <<>> \/ st.error /= "" THEN st
            ELSE LET row == Head(rows)
                     r == update_or_create(st.db.RedFlag,
                              [red_flag_id |-> row.red_flag_id],
                              [default_patient_response |-> row.default_patient_response,
                               doctor_at_a_glance |-> row.doctor_at_a_glance])
                     st1 == Put(st, "RedFlag", r)
                 IN Rows(Tail(rows),
                         [st1 EXCEPT !.redflags = (row.red_flag_id :> r.pk) @@ @])
    IN Rows(df, st0)

\* the sheet with a language_code column
_load_redflag_translations(df, st0) ==
    LET languages_by_code == LanguagesByCode(st0.db)
        RECURSIVE Rows(_, _)
        Rows(rows, st) ==
            IF rows = <<>> \/ st.error /= "" THEN st
            ELSE LET entry == Head(rows)
                 IN IF \/ entry.red_flag_id \notin DOMAIN st.redflags
                       \/ entry.language_code \notin DOMAIN languages_by_code
                    THEN Rows(Tail(rows), st)
                    ELSE Rows(Tail(rows),
                             Put(st, "RedFlagTranslation",
                                 update_or_create(st.db.RedFlagTranslation,
                                     [red_flag |-> st.redflags[entry.red_flag_id],
                                      language |-> languages_by_code[entry.language_code]],
                                     [patient_response |-> entry.patient_response,
                                      doctor_at_a_glance |-> entry.doctor_at_a_glance])))
    IN Rows(df, st0)

_load_option_redflag_map(df, st0) ==
    LET RECURSIVE Rows(_, _)
        Rows(rows, st) ==
            IF rows = <<>> \/ st.error /= "" THEN st
            ELSE LET row == Head(rows)
                 IN IF \/ row.option_id \notin DOMAIN st.options
                       \/ row.red_flag_id \notin DOMAIN st.redflags
                    THEN Rows(Tail(rows), st)
                    ELSE Rows(Tail(rows),
                             Put(st, "OptionRedFlagMap",
                                 update_or_create(st.db.OptionRedFlagMap,
                                     [option |-> st.options[row.option_id],
                                      red_flag |-> st.redflags[row.red_flag_id]],
                                     <<>>)))
    IN Rows(df, st0)

\* Command.handle: the loaders in the order the command calls them; an
\* exception ends the command, and what was written before it stays
handle(data, tables) ==
    LET st1 == _load_languages(data.languages, Running(tables))
        st2 == _load_forms(data.forms, st1)
        st3 == _load_questions(data.questions, st2)
        st4 == _load_question_translations(data.questiontranslations, st3)
        st5 == _load_question_conditions(data.questionconditions, st4)
        st6 == _load_options(data.questionoptions, st5)
        st7 == _load_option_translations(data.optiontranslations, st6)
        st8 == _load_redflags(data.redflags, st7)
        st9 == _load_redflag_translations(data.redflagtranslations, st8)
    IN _load_option_redflag_map(data.optionredflagmap, st9)

\* sheet names of a workbook
Sheets ==
    {"languages", "forms", "questions", "questiontranslations",
     "questionconditions", "questionoptions", "optiontranslations",
     "redflags", "redflagtranslations", "optionredflagmap"}

QuestionRow(question_id, seq, parent) ==
    [question_id |-> question_id, form_id |-> "F1", sequence_no |-> seq,
     question_type |-> SELECT, parent_question_id |-> parent,
     shows_text_field |-> FALSE]

\* the workbook of form F1: Q1 and its child Q2, shown for O1; some rows
\* are repeated in their sheet, some name a language or an option that no
\* sheet defines. child_first: the Questions sheet lists Q2 before Q1;
\* edition: the text the editable columns hold
Workbook(child_first, edition) ==
    [languages |-> <<[code |-> "en", name |-> "English"],
                     [code |-> "fr", name |-> "French " \o edition]>>,
     forms |-> <<[form_id |-> "F1", description |-> edition,
                  form_name |-> ("en" :> "Form one")]>>,
     questions |-> IF child_first
                   THEN <<QuestionRow("Q2", 2, "Q1"), QuestionRow("Q1", 1, NULL)>>
                   ELSE <<QuestionRow("Q1", 1, NULL), QuestionRow("Q2", 2, "Q1")>>,
     questiontranslations |->
         <<[question_id |-> "Q1", language_code |-> "en", question_text |-> edition],
           [question_id |-> "Q1", language_code |-> "xx", question_text |-> edition]>>,
     questionconditions |->
         <<[question_id |-> "Q2", trigger_option_id |-> "O1"],
           [question_id |-> "Q2", trigger_option_id |-> "O1"],
           [question_id |-> "Q2", trigger_option_id |-> "OX"]>>,
     questionoptions |-> <<[option_id |-> "O1", question_id |-> "Q1"],
                           [option_id |-> "O5", question_id |-> "Q2"]>>,
     optiontranslations |->
         <<[option_id |-> "O1", language_code |-> "fr", option_text |-> edition]>>,
     redflags |-> <<[red_flag_id |-> "RF1",
                     default_patient_response |-> edition,
                     doctor_at_a_glance |-> edition]>>,
     redflagtranslations |->
         <<[red_flag_id |-> "RF1", language_code |-> "en",
            patient_response |-> edition, doctor_at_a_glance |-> edition]>>,
     optionredflagmap |-> <<[option_id |-> "O1", red_flag_id |-> "RF1"],
                            [option_id |-> "O5", red_flag_id |-> "RF1"],
                            [option_id |-> "O1", red_flag_id |-> "RF1"]>>]

\* a workbook with only some of its sheets (a sheet that is missing is
\* skipped by its loader, like a sheet without rows)
Only(sheets, workbook) ==
    [sh \in Sheets |-> IF sh \in sheets THEN workbook[sh] ELSE <<>>]

\* the spreadsheets the command is run on
Sources ==
    {Workbook(child_first, edition) :
        child_first \in BOOLEAN, edition \in {"v1", "v2"}}
    \cup
    {Only(sheets, Workbook(child_first, edition)) :
        child_first \in BOOLEAN, edition \in {"v1", "v2"},
        sheets \in {{"languages", "forms"},
                    {"forms", "questions", "questionoptions"},
                    {"questions", "questionconditions"},
                    {"redflags", "redflagtranslations"},
                    {"questionoptions", "redflags", "optionredflagmap"},
                    Sheets \ {"languages"}}}

\* python manage.py ingest_forms <spreadsheet>
IngestForms ==
    /\ \E data \in Sources : db' = handle(data, db).db
    /\ UNCHANGED <<eval_vars, doctor_vars, text_vars, history_vars>>

InitIngest ==
    /\ \E c \in TextCatalogs :
          /\ questions = c.questions
          /\ options = c.options
          /\ conditions = c.conditions
          /\ option_redflag_map = c.option_redflag_map
    /\ submissions = <<>>
    /\ last = EarlyOutcome("none")
    /\ request = NoRequest
    /\ req = Idle
    /\ DoctorsIdle /\ TextsIdle /\ IngestIdle /\ HistoryIdle

NextIngest == IngestForms

SpecIngest == InitIngest /\ [][NextIngest]_vars

----------------------------------------------------------------------------
(* Helpers of the properties *)

\* the request handled last entered the POST branch of patient_form
PostHandled == last.order /= <<>>

\* the PatientSubmission row the request handled last created
LastSubmission == submissions[last.record_id]

\* a recorded answer normalised to the set of its entries
AnswerEntries(answers, key) ==
    IF key \in DOMAIN answers THEN Range(answers[key].v) ELSE {}

\* the entries of the non-empty recorded answers of the form's questions
SelectedEntries(answers, form_id) ==
    UNION {AnswerEntries(answers, q) : q \in FormQuestions(form_id)}

\* the entries of the recorded answers that resolve to no QuestionOption
StaleEntries(answers) ==
    SelectedEntries(answers, "F1") \ (DOMAIN options \cup {""})

\* conditioned questions: a parent and at least one condition row
Conditioned(q) ==
    questions[q].parent_question /= NULL /\ TriggerOptions(q) /= {}

----------------------------------------------------------------------------
(* C1 *)

\* C1: in every submission that is stored, a question Q with parent P and a
\* non-empty condition set T is active if and only if the answer recorded
\* for P, normalised to a list, contains an option_id of T.
C1_ActiveIffParentAnswerHits ==
    last.status = "ok" =>
        \A q \in FormQuestions("F1") :
            Conditioned(q) =>
                (q \in last.active <=>
                    AnswerEntries(last.answers, questions[q].parent_question)
                        \cap TriggerOptions(q) /= {})

(* C2 *)

\* C2: when no value is posted for the parent P of a conditioned question Q,
\* the visibility pass raises nothing and Q is inactive.
C2_UnansweredParentInactive ==
    PostHandled =>
        \A q \in FormQuestions("F1") :
            (Conditioned(q)
             /\ ("q_" \o questions[q].parent_question) \notin DOMAIN last.post)
            => (last.error /= "TypeError" /\ q \notin last.active)

(* C3 *)

\* C3: the red flags attached to a stored submission are exactly the union
\* of the flags mapped to the option ids of its non-empty recorded answers,
\* each flag once, whatever the order of questions and options.
C3_RedFlagsAreUnion ==
    last.status = "ok" =>
        LastSubmission.red_flags =
            UNION {MappedRedFlags(o) :
                      o \in SelectedEntries(LastSubmission.responses, "F1")}

\* a multi-select answer with two options that both map to RF1 was stored
C3_Witness ==
    /\ last.status = "ok"
    /\ "Q1" \in DOMAIN LastSubmission.responses
    /\ LastSubmission.responses["Q1"] = PyList(<<"O2", "O3">>)
    /\ LastSubmission.red_flags = {"RF1", "RF2"}

(* C4 *)

\* C4: an inactive question contributes nothing: the value posted for it
\* and its text companion are absent from the persisted responses, and the
\* triggered flags all come from entries posted for active questions.
C4_InactiveContributesNothing ==
    last.status = "ok" =>
        /\ \A q \in FormQuestions("F1") \ last.active :
              /\ ("q_" \o q) \in DOMAIN last.post
                    => q \notin DOMAIN LastSubmission.responses
              /\ TextKey(q) \notin DOMAIN LastSubmission.responses
        /\ last.red_flag_ids \subseteq
              UNION {MappedRedFlags(o) :
                        o \in UNION {IF ("q_" \o q) \in DOMAIN last.post
                                     THEN Range(last.post["q_" \o q]) ELSE {} :
                                     q \in last.active}}

(* C5 *)

\* C5: the notification sink is called for a stored submission if and only
\* if the triggered set is non-empty, then exactly once, with exactly one
\* payload entry per triggered flag.
C5_NotifyIffFlags ==
    last.status = "ok" =>
        /\ Len(last.calls) = (IF last.red_flag_ids /= {} THEN 1 ELSE 0)
        /\ \A c \in 1..Len(last.calls) :
              /\ Len(last.calls[c]) = Cardinality(last.red_flag_ids)
              /\ {last.calls[c][i].red_flag : i \in 1..Len(last.calls[c])}
                    = last.red_flag_ids

\* the scenario {Q1: O2}: one call with one payload entry
C5_Witness ==
    /\ last.status = "ok"
    /\ last.post = ("q_Q1" :> <<"O2">>)
    /\ last.red_flag_ids = {"RF1"}
    /\ Len(last.calls) = 1
    /\ Len(last.calls[1]) = 1

(* C6 *)

C7_CollisionRegenerated ==
    (PostHandled /\ last.error /= "TypeError") =>
        /\ last.status = "ok"
        /\ last.record_id \in DOMAIN submissions

(* C8 *)

\* C8: a submission in which an active question has no posted answer
\* creates no PatientSubmission row.
C8_InvalidPayloadNotStored ==
    (PostHandled /\ \E q \in last.active : ("q_" \o q) \notin DOMAIN last.post)
        => last.record_id = NULL

(* C9 *)

\* C9: when a recorded answer holds an option id that resolves to no
\* QuestionOption, matching raises nothing: the submission is stored with
\* that answer, and its flags are those of the remaining identifiers.
C9_StaleOptionSkipped ==
    (PostHandled /\ last.error \notin {"TypeError", "IntegrityError"}
        /\ StaleEntries(last.answers) /= {})
    => /\ last.status = "ok"
       /\ last.record_id \in DOMAIN submissions
       /\ LastSubmission.responses = last.answers
       /\ LastSubmission.red_flags =
             UNION {MappedRedFlags(o) :
                       o \in SelectedEntries(last.answers, "F1") \cap DOMAIN options}

\* a stale id posted next to an option that maps to RF1
C9_Witness ==
    /\ last.status = "ok"
    /\ "OX" \in StaleEntries(last.answers)
    /\ "O2" \in SelectedEntries(last.answers, "F1")
    /\ LastSubmission.red_flags = {"RF1"}

(* C10 *)

\* C10: in every request whose visibility pass ran to its end, a question
\* with no parent, or with a parent but no condition rows, is active.
C10_UnconditionedAlwaysActive ==
    (PostHandled /\ last.error /= "TypeError") =>
        \A q \in FormQuestions("F1") :
            (questions[q].parent_question = NULL \/ TriggerOptions(q) = {})
                => q \in last.active

\* an empty payload: the parentless question and the child without
\* condition rows are both active
C10_Witness ==
    /\ PostHandled
    /\ last.post = <<>>
    /\ questions["Q2"].parent_question = "Q1"
    /\ TriggerOptions("Q2") = {}
    /\ {"Q1", "Q2"} \subseteq last.active

(* C12 *)

\* C12: with creations running at the same time, no two stored doctors
\* share a shareable_slug and no creation ends without its row stored.
C12_ConcurrentCreationsStored ==
    /\ \A p1, p2 \in DOMAIN doctor_rows :
          p1 /= p2 =>
              doctor_rows[p1].shareable_slug /= doctor_rows[p2].shareable_slug
    /\ \A w \in Savers : saving[w].phase /= "IntegrityError"

(* C13 *)

\* the base when it is free, otherwise base-k for the least k >= 2 such
\* that base-k is free
FirstFreeSlug(base, taken) ==
    IF base \notin taken THEN base
    ELSE LET free(k) == (base \o "-" \o Dec(k)) \notin taken
             k == CHOOSE k \in 2..(Cardinality(taken) + 2) :
                     free(k) /\ \A j \in 2..(k - 1) : ~free(j)
         IN base \o "-" \o Dec(k)

\* C13: the slug a new doctor is given is the slugified name-clinic base
\* if no stored doctor holds it, otherwise the first free of base-2,
\* base-3, ...; that slug is the one stored, and no save of a stored
\* doctor changes its slug.
C13_SlugDerivedAndKept ==
    [][/\ \A w \in Savers :
             (saving[w].phase /= "computed" /\ saving'[w].phase = "computed")
             => saving'[w].shareable_slug =
                    FirstFreeSlug(BaseSlug(saving'[w].name, saving'[w].clinic_name),
                                  StoredSlugs)
       /\ \A w \in Savers :
             (saving[w].phase = "computed" /\ saving'[w].phase = "stored")
             => doctor_rows'[Len(doctor_rows')].shareable_slug
                    = saving[w].shareable_slug
       /\ \A pk \in DOMAIN doctor_rows :
             /\ pk \in DOMAIN doctor_rows'
             /\ doctor_rows'[pk].shareable_slug = doctor_rows[pk].shareable_slug
      ]_vars

\* a third doctor of base ann-b was stored as ann-b-3, and the doctor
\* holding ann-b was saved again under another name
C13_Witness ==
    /\ \E pk \in DOMAIN doctor_rows : doctor_rows[pk].shareable_slug = "ann-b-3"
    /\ \E pk \in DOMAIN doctor_rows :
          /\ doctor_rows[pk].shareable_slug = "ann-b"
          /\ doctor_rows[pk].name = <<"!">>

(* C14 *)

\* C14: a request whose doctor slug, form_id or language code is unknown
\* ends with a not-found result, creates no PatientSubmission row and
\* calls the notification sink not once.
C14_UnknownEndsNotFound ==
    [][(\/ request'.slug \notin DOMAIN doctors
        \/ request'.form_id \notin forms
        \/ request'.language_code \notin languages)
       => /\ last'.status = "not_found"
          /\ submissions' = submissions
          /\ last'.record_id = NULL
          /\ last'.calls = <<>>]_vars

\* an unknown language code requested after a submission was stored
C14_Witness ==
    /\ request = Request("dr-a", "F1", "xx")
    /\ last.status = "not_found"
    /\ submissions /= <<>>

(* C11 *)

\* C11: the answers and the triggered set of a request that ran both loops
\* equal what the two loops yield against one of the catalog states that
\* existed while the request was evaluated.
C11_CoherentSnapshot ==
    req.phase = "done" =>
        \E e \in req.coherent :
            /\ e.error = ""
            /\ e.answers = last.answers
            /\ e.red_flag_ids = last.red_flag_ids

(* C15 *)

\* the languages a question / an option has a translation row in
QuestionLanguages(question_id) ==
    {t.language : t \in {t \in question_translations : t.question = question_id}}

OptionLanguages(option_id) ==
    {t.language : t \in {t \in option_translations : t.option = option_id}}

\* C15: the text of a question whose only translation is the English one,
\* asked for in another language that exists, is the English text, and
\* nothing is raised.
C15_QuestionFallsBackToEnglish ==
    (resolved.kind = "question"
     /\ QuestionLanguages(resolved.id) = {"en"}
     /\ resolved.language /= "en")
    => resolved.result = Text("en text of " \o resolved.id)

\* Q2, translated into English only, asked for in French
C15_Witness ==
    /\ resolved.kind = "question"
    /\ resolved.id = "Q2"
    /\ resolved.language = "fr"
    /\ QuestionLanguages("Q2") = {"en"}
    /\ resolved.result.text = "en text of Q2"

(* C16 *)

\* C16: the text of an option is that of its row in the requested language
\* when the row exists, otherwise that of its English row when that
\* exists; nothing is raised in either case.
C16_OptionLookupOrder ==
    resolved.kind = "option" =>
        /\ resolved.language \in OptionLanguages(resolved.id)
              => resolved.result =
                     Text(resolved.language \o " text of " \o resolved.id)
        /\ (resolved.language \notin OptionLanguages(resolved.id)
            /\ "en" \in OptionLanguages(resolved.id))
              => resolved.result = Text("en text of " \o resolved.id)

(* C17 *)

\* C17: rendering the form raises nothing, and a question or an option
\* translated neither into the requested language nor into English is
\* shown with its question_id / option_id as the text.
C17_UntranslatedShownAsIdentifier ==
    resolved.kind = "page" =>
        /\ resolved.result.error = ""
        /\ \A q \in FormQuestions(resolved.id) :
              QuestionLanguages(q) \cap {resolved.language, "en"} = {}
                  => resolved.result.text[q] = q
        /\ \A o \in DOMAIN options :
              OptionLanguages(o) \cap {resolved.language, "en"} = {}
                  => resolved.result.text[o] = o

(* C18 *)

\* one text field of a red flag by the three tiers: the row of the
\* requested language, the English row, the built-in default; a tier whose
\* field is missing or empty is passed over
ThreeTier(red_flag_id, language, field, default) ==
    LET of(l) == {t[field] : t \in {t \in redflag_translations :
                                       /\ t.red_flag = red_flag_id
                                       /\ t.language = l
                                       /\ t[field] /= ""}}
    IN IF of(language) /= {} THEN CHOOSE x \in of(language) : TRUE
       ELSE IF of("en") /= {} THEN CHOOSE x \in of("en") : TRUE
       ELSE redflags[red_flag_id][default]

\* C18: the patient text and the doctor text of a red flag are each
\* resolved by the three tiers on their own.
C18_RedFlagThreeTierPerField ==
    resolved.kind = "red_flag" =>
        /\ resolved.result.patient_text =
              ThreeTier(resolved.id, resolved.language,
                        "patient_response", "default_patient_response")
        /\ resolved.result.doctor_text =
              ThreeTier(resolved.id, resolved.language,
                        "doctor_at_a_glance", "doctor_at_a_glance")

(* C20 *)

\* no two rows of a table agree on all the given fields
NoTwoRows(table, fields) ==
    \A p1, p2 \in DOMAIN table :
        p1 /= p2 => \E f \in fields : table[p1][f] /= table[p2][f]

\* C20: after any number of runs of the loader, no two rows have the same
\* form_id, question_id, option_id, red_flag_id or language code, and no
\* two rows the same (question, trigger_option) or (option, red_flag) pair.
C20_IngestionNeverDuplicates ==
    /\ NoTwoRows(db.Form, {"form_id"})
    /\ NoTwoRows(db.Question, {"question_id"})
    /\ NoTwoRows(db.QuestionOption, {"option_id"})
    /\ NoTwoRows(db.RedFlag, {"red_flag_id"})
    /\ NoTwoRows(db.Language, {"code"})
    /\ NoTwoRows(db.QuestionCondition, {"question", "trigger_option"})
    /\ NoTwoRows(db.OptionRedFlagMap, {"option", "red_flag"})

\* the whole workbook was loaded, and loaded again: the condition row is
\* there (a first run finds no option to attach it to), and the rows
\* repeated in the sheets are stored once
C20_Witness ==
    /\ Len(db.QuestionCondition) = 1
    /\ Len(db.OptionRedFlagMap) = 2
    /\ Len(db.Question) = 2
    /\ Len(db.QuestionOption) = 2
    /\ Len(db.Language) = 2
    /\ Len(db.Form) = 1
    /\ Len(db.RedFlag) = 1

(* C21 *)

\* C21: a question whose parent question was deleted is still stored and
\* has no parent, and it is active in every request handled afterwards
\* whose visibility pass ran to its end, whatever was posted.
C21_OrphanedChildIsTopLevel ==
    [][/\ \A c \in orphaned' :
             /\ c \in DOMAIN questions'
             /\ questions'[c].parent_question = NULL
       /\ (last' /= last /\ last'.order /= <<>> /\ last'.error /= "TypeError")
             => orphaned \subseteq last'.active
      ]_vars

\* Q1 was deleted, and a request that posted O1 for it, an answer that did
\* not show Q2 before, was handled with Q2 active
C21_Witness ==
    /\ orphaned = {"Q2"}
    /\ "Q1" \notin DOMAIN questions
    /\ last.post = ("q_Q1" :> <<"O1">>)
    /\ last.order = <<"Q2">>
    /\ "Q2" \in last.active

(* C22 *)

\* the QuestionCondition rows and parent_question links of a source that
\* name only questions and options the source defines are all in the tables
SourceLinksStored(data, tables) ==
    LET Pks(model, field, id) == Matching(tables[model], [t \in {field} |-> id])
        defined_questions ==
            {data.questions[i].question_id : i \in DOMAIN data.questions}
        defined_options ==
            {data.questionoptions[i].option_id : i \in DOMAIN data.questionoptions}
    IN /\ \A i \in DOMAIN data.questionconditions :
             LET row == data.questionconditions[i]
             IN (/\ row.question_id \in defined_questions
                 /\ row.trigger_option_id \in defined_options)
                => \E pk \in DOMAIN tables.QuestionCondition :
                      LET condition == tables.QuestionCondition[pk]
                      IN /\ condition.question
                              \in Pks("Question", "question_id", row.question_id)
                         /\ condition.trigger_option
                              \in Pks("QuestionOption", "option_id",
                                      row.trigger_option_id)
       /\ \A i \in DOMAIN data.questions :
             LET row == data.questions[i]
             IN (/\ row.parent_question_id /= NULL
                 /\ row.parent_question_id \in defined_questions)
                => \E pk \in Pks("Question", "question_id", row.question_id) :
                      tables.Question[pk].parent_question
                          \in Pks("Question", "question_id", row.parent_question_id)

\* C22: a run of the command that ends without an exception on an empty
\* catalog stores every condition row and parent link the source defines,
\* and a second run of the same source changes nothing.
C22_FirstRunIsFinal ==
    [][db = EmptyDb =>
          \A data \in Sources :
              (handle(data, db).error = "" /\ db' = handle(data, db).db)
              => /\ SourceLinksStored(data, db')
                 /\ handle(data, db').db = db'
      ]_vars

(* C23 *)

\* the entries recorded for the active option questions of the form that
\* are options of the question they were recorded for
OwnSelectedOptions(answers, active) ==
    UNION {{o \in AnswerEntries(answers, q) :
                o \in DOMAIN options /\ options[o] = q} :
           q \in {q \in FormQuestions("F1") \cap active :
                     questions[q].question_type /= TEXT}}

\* C23: every red flag of a stored submission is mapped to a selected
\* option of the question it was recorded for: free text of a TEXT question
\* and option ids of other questions trigger nothing.
C23_FlagsOnlyFromOwnOptions ==
    last.status = "ok" =>
        last.red_flag_ids \subseteq
            UNION {MappedRedFlags(o) :
                      o \in OwnSelectedOptions(last.answers, last.active)}

(* C24 *)

\* C24: in every request whose visibility pass ran to its end, a question
\* with a parent and condition rows is active only if its parent is active,
\* so an inactive question hides the whole chain below it.
C24_GatingTransitive ==
    (PostHandled /\ last.error /= "TypeError") =>
        \A q \in FormQuestions("F1") :
            (Conditioned(q) /\ q \in last.active)
            => questions[q].parent_question \in last.active

(* C25 *)

\* C25: two calls of generate_patient_id with different (name, mobile)
\* pairs derive from different inputs, so they return different
\* patient_ids, names and mobiles that contain ':' included.
C25_DistinctPatientsDistinctIds ==
    \A a, b \in derived :
        (a.name /= b.name \/ a.mobile /= b.mobile) => a.patient_id /= b.patient_id

====
